---- MODULE Spec2Model ----
(***************************************************************************)
(* Animated Earth (Three.js): the starfield sampler of                     *)
(* stars/getStarfield.js and the scene script, frame loop and resize       *)
(* listener of main.js.                                                    *)
(*                                                                         *)
(* Numbers.  JavaScript numbers are modelled in decimal fixed point:       *)
(* lengths, coordinates, opacities, draws and the angles handed to the     *)
(* trigonometric functions are integers in units of 1/Scale; the rotation  *)
(* angles of the groups are integers in units of 1/AngleScale, in which    *)
(* the three per-frame increments are exact.  Every product is rounded to  *)
(* the nearest unit, as finite-precision arithmetic rounds every result.   *)
(***************************************************************************)
EXTENDS Integers, Sequences, FiniteSets, TLC

VARIABLES
    layers,          \* starsX_Low / starsX_Med / starsX_High: the Points objects
    starsGroup,      \* children of starsGroup
    heap,            \* the Float32Arrays allocated so far, by identity
    pc,              \* position of the main.js script / "loop" once it has run / "harness"
    innerWidth,      \* window.innerWidth
    innerHeight,     \* window.innerHeight
    rendererSize,    \* renderer size set by renderer.setSize
    canvasStyle,     \* renderer.domElement.style (width, height) in px
    cameraAspect,    \* camera.aspect
    projAspect,      \* the aspect camera.projectionMatrix was last computed from
    earthRot,        \* earthGroup.rotation  [y, z]
    cloudRotY,       \* cloudGroup.rotation.y
    starsRotY,       \* starsGroup.rotation.y
    earthWorld,      \* earthGroup.matrixWorld, as the rotation it was last computed from
    lightsOpacity,   \* lightsMesh.material.opacity
    sunPosition,     \* sunLight.position
    rng,             \* hidden state of the Math.random generator
    resizeListener,  \* whether the resize listener is registered
    resizePending,   \* a resize event waits to be dispatched
    rafPending,      \* number of callbacks registered by requestAnimationFrame
    frames,          \* executions of animate() so far
    lastFrame,       \* what the last renderer.render drew
    resizeRead,      \* window dimensions read by the most recent resize callback
    genLog,          \* per layer, the arguments of each getStarfield invocation made for it
    cfg,             \* harness: the configuration handed to getStarfield
    calls            \* harness: log of the getStarfield invocations

vars == << heap, layers, starsGroup, pc, innerWidth, innerHeight, rendererSize,
           canvasStyle, cameraAspect, projAspect, earthRot, cloudRotY, starsRotY,
           earthWorld, lightsOpacity,
           sunPosition, rng, resizeListener, resizePending, rafPending, frames,
           lastFrame, resizeRead, genLog, cfg, calls >>

sceneVars == << innerWidth, innerHeight, rendererSize, canvasStyle, cameraAspect,
                projAspect, earthRot, cloudRotY, starsRotY, earthWorld,
                lightsOpacity, sunPosition, layers, starsGroup, resizeListener,
                resizePending, rafPending, frames, lastFrame, resizeRead,
                genLog >>

(***************************************************************************)
(* Bounds of the model.                                                    *)
(***************************************************************************)
MaxStars == 2       \* harness: numStars ranges over -2 .. MaxStars
MaxCalls == 2       \* harness: invocations of getStarfield per run
DrawGrid == 4       \* Math.random() returns k/DrawGrid, k in 0 .. DrawGrid-1
MaxDim == 2         \* window.innerWidth, window.innerHeight in 1 .. MaxDim
MaxFrames == 3      \* executions of animate() explored

(***************************************************************************)
(* Fixed-point arithmetic.                                                 *)
(***************************************************************************)
Scale == 1000
AngleScale == 100000
PI == 3142                  \* Math.PI in units of 1/Scale
NaN == -2000000000          \* the not-a-number value

Abs(a) == IF a < 0 THEN -a ELSE a

\* a / b rounded to the nearest integer, symmetric in the sign of a  (b > 0)
RoundDiv(a, b) == IF a >= 0 THEN (a + b \div 2) \div b ELSE -((b \div 2 - a) \div b)

\* the product of two fixed-point numbers; NaN propagates
Mul(a, b) == IF a = NaN \/ b = NaN THEN NaN ELSE RoundDiv(a * b, Scale)

\* the sum of two fixed-point numbers; NaN propagates
Add(a, b) == IF a = NaN \/ b = NaN THEN NaN ELSE a + b

RECURSIVE ISqrtBits(_, _, _)
\* largest r with r*r <= n, found bit by bit from the top
ISqrtBits(n, r, bit) ==
    IF bit = 0 THEN r
    ELSE IF r + bit <= 46340 /\ (r + bit) * (r + bit) <= n
         THEN ISqrtBits(n, r + bit, bit \div 2)
         ELSE ISqrtBits(n, r, bit \div 2)

\* floor of the square root of n, 0 <= n < 2^31
ISqrt(n) == ISqrtBits(n, 0, 32768)

RECURSIVE SinSeries(_, _, _, _)
\* x - x^3/3! + x^5/5! - ... for 0 <= x <= PI/2, summed until the terms vanish
SinSeries(x2, term, k, acc) ==
    IF term = 0 THEN acc
    ELSE SinSeries(x2, -RoundDiv(Mul(term, x2), (k + 1) * (k + 2)), k + 2, acc + term)

SinQ(x) == SinSeries(Mul(x, x), x, 1, 0)
CosQ(x) == SinSeries(Mul(x, x), Scale, 0, 0)

RECURSIVE ReduceAngle(_)
\* the angle in [0, 2*PI) with the same sine and cosine
ReduceAngle(a) ==
    IF a < 0 THEN ReduceAngle(a + 2 * PI)
    ELSE IF a >= 2 * PI THEN ReduceAngle(a - 2 * PI) ELSE a

\* Math.sin
sin(a) ==
    IF a = NaN THEN NaN
    ELSE LET r == ReduceAngle(a)
         IN  IF r <= PI \div 2 THEN SinQ(r)
             ELSE IF r <= PI THEN SinQ(PI - r)
             ELSE IF r <= PI + PI \div 2 THEN -SinQ(r - PI)
             ELSE -SinQ(2 * PI - r)

\* Math.cos
cos(a) ==
    IF a = NaN THEN NaN
    ELSE LET r == ReduceAngle(a)
         IN  IF r <= PI \div 2 THEN CosQ(r)
             ELSE IF r <= PI THEN -CosQ(PI - r)
             ELSE IF r <= PI + PI \div 2 THEN -CosQ(r - PI)
             ELSE CosQ(2 * PI - r)

RECURSIVE AcosSearch(_, _, _)
\* cos decreases on [0, PI]: bisect for the angle whose cosine is c
AcosSearch(c, lo, hi) ==
    IF hi - lo <= 1
    THEN IF Abs(cos(lo) - c) <= Abs(cos(hi) - c) THEN lo ELSE hi
    ELSE LET mid == (lo + hi) \div 2
         IN  IF cos(mid) > c THEN AcosSearch(c, mid, hi) ELSE AcosSearch(c, lo, mid)

\* Math.acos: NaN outside [-1, 1]
acos(c) ==
    IF c = NaN \/ c < -Scale \/ c > Scale THEN NaN
    ELSE IF c = Scale THEN 0
    ELSE IF c = -Scale THEN PI
    ELSE AcosSearch(c, 0, PI)

(***************************************************************************)
(* Math.random.  The engine's generator is a deterministic generator with  *)
(* hidden state; here a three-word lagged generator over the draw grid:    *)
(* the next three draws after seeding are the three words of the seed, so  *)
(* the draws of a point range over every triple of grid values.            *)
(***************************************************************************)
Seeds == [1..3 -> 0 .. DrawGrid - 1]

\* the value the next Math.random() returns, in [0, 1)
RandomValue(r) == (r[1] * Scale) \div DrawGrid

\* the generator's state after that call
RandomStep(r) == << r[2], r[3], (r[1] + r[2] + r[3] + 1) % DrawGrid >>

(***************************************************************************)
(* stars/getStarfield.js                                                   *)
(***************************************************************************)
RECURSIVE Zeros(_)
\* the sequence of n zeros, built by doubling
Zeros(n) ==
    IF n <= 0 THEN << >>
    ELSE LET half == Zeros(n \div 2)
         IN  IF n % 2 = 0 THEN half \o half ELSE Append(half \o half, 0)

\* faulty variant: the array is allocated one element short
Float32Array_short(length) ==
    IF length < 0 THEN [status |-> "RangeError", array |-> << >>]
    ELSE [status |-> "ok", array |-> Zeros(length - 1)]

\* faulty variant: a negative length yields an empty array instead of a RangeError
Float32Array_lenient(length) ==
    IF length < 0 THEN [status |-> "ok", array |-> << >>]
    ELSE [status |-> "ok", array |-> Zeros(length)]

\* new Float32Array(length): zero-filled, or a RangeError for a negative length
Float32Array(length) ==
    IF length < 0 THEN [status |-> "RangeError", array |-> << >>]
    ELSE [status |-> "ok", array |-> Zeros(length)]

RECURSIVE FroundTo(_, _)
FroundTo(v, step) ==
    IF Abs(v) < 16777216 * step THEN RoundDiv(v, step) * step ELSE FroundTo(v, 2 * step)

\* the value a Float32Array element holds after v is stored: v rounded to 24
\* significant bits (no change to a value below 2^24 units)
Fround(v) == IF v = NaN THEN NaN ELSE FroundTo(v, 1)

\* starPositions[index] = v: a store outside the array is ignored
Store(arr, index, v) ==
    IF index + 1 \in 1 .. Len(arr) THEN [arr EXCEPT ![index + 1] = Fround(v)] ELSE arr

\* faulty variant: the distance is radius * Math.random(), a filled ball instead of a shell
StarPoint_ball(radius, u1, u2, u3) ==
    LET theta == Mul(Mul(u1, 2 * Scale), PI)
        phi == acos(2 * u2 - Scale)
        distance == Mul(radius, u3)
    IN  << Mul(Mul(distance, sin(phi)), cos(theta)),
           Mul(Mul(distance, sin(phi)), sin(theta)),
           Mul(distance, cos(phi)) >>

\* one star: spherical coordinates from three draws, converted to Cartesian
StarPoint(radius, u1, u2, u3) ==
    LET theta == Mul(Mul(u1, 2 * Scale), PI)
        phi == acos(2 * u2 - Scale)
        distance == Mul(radius, 800 + Mul(200, u3))
    IN  << Mul(Mul(distance, sin(phi)), cos(theta)),
           Mul(Mul(distance, sin(phi)), sin(theta)),
           Mul(distance, cos(phi)) >>

\* the body of the loop for star i, entered with array and generator state r
StarStep(i, radius, starPositions, r, drawn) ==
    LET r1 == RandomStep(r)
        r2 == RandomStep(r1)
        p == StarPoint(radius, RandomValue(r), RandomValue(r1), RandomValue(r2))
    IN  [starPositions |-> Store(Store(Store(starPositions, i * 3, p[1]),
                                       i * 3 + 1, p[2]),
                                 i * 3 + 2, p[3]),
         rng |-> RandomStep(r2),
         drawn |-> drawn \o << RandomValue(r), RandomValue(r1), RandomValue(r2) >>]

RECURSIVE StarRange(_, _, _, _, _, _)
\* the iterations lo <= i < hi of the loop, in order.  The range is halved and
\* the state after the first half is bound as a value, so that the evaluation
\* does not nest once per star.
StarRange(lo, hi, radius, starPositions, r, drawn) ==
    IF hi <= lo THEN [starPositions |-> starPositions, rng |-> r, drawn |-> drawn]
    ELSE IF hi = lo + 1 THEN StarStep(lo, radius, starPositions, r, drawn)
    ELSE LET mid == (lo + hi) \div 2
         IN  CHOOSE out \in
                 { StarRange(mid, hi, radius, first.starPositions, first.rng, first.drawn) :
                     first \in { StarRange(lo, mid, radius, starPositions, r, drawn) } } :
                 TRUE

\* for (let i = 0; i < numStars; i++) { ... }
StarLoop(numStars, radius, starPositions, r) ==
    StarRange(0, numStars, radius, starPositions, r, << >>)

NoObject == [position |-> 0, itemSize |-> 0, color |-> 0, size |-> 0]

\* new THREE.Points(starGeometry, starMaterial): the position attribute names
\* the Float32Array it wraps
Points(buffer) == [position |-> buffer, itemSize |-> 3, color |-> 16777215, size |-> 10]

\* faulty variant: one module-level array is reused by every call
getStarfield_sharedBuffer(numStars, radius, r, h) ==
    LET alloc == Float32Array(numStars * 3)
    IN  IF alloc.status # "ok"
        THEN [status |-> alloc.status, points |-> NoObject, heap |-> h, rng |-> r,
              drawn |-> << >>]
        ELSE LET done == StarLoop(numStars, radius * Scale, alloc.array, r)
             IN  [status |-> "ok",
                  points |-> Points(1),
                  heap |-> IF h = << >> THEN << done.starPositions >>
                           ELSE [h EXCEPT ![1] = done.starPositions],
                  rng |-> done.rng,
                  drawn |-> done.drawn]

\* faulty variant: the radius grows with the number of starfields made so far
getStarfield_counting(numStars, radius, r, h) ==
    LET alloc == Float32Array(numStars * 3)
    IN  IF alloc.status # "ok"
        THEN [status |-> alloc.status, points |-> NoObject, heap |-> h, rng |-> r,
              drawn |-> << >>]
        ELSE LET done == StarLoop(numStars, (radius + Len(h)) * Scale, alloc.array, r)
             IN  [status |-> "ok",
                  points |-> Points(Len(h) + 1),
                  heap |-> Append(h, done.starPositions),
                  rng |-> done.rng,
                  drawn |-> done.drawn]

\* getStarfield({ numStars, radius }) run with generator state r and heap h:
\* what it returns or throws, and the state it leaves
getStarfield(numStars, radius, r, h) ==
    LET alloc == Float32Array(numStars * 3)
    IN  IF alloc.status # "ok"
        THEN [status |-> alloc.status, points |-> NoObject, heap |-> h, rng |-> r,
              drawn |-> << >>]
        ELSE LET done == StarLoop(numStars, radius * Scale, alloc.array, r)
             IN  [status |-> "ok",
                  points |-> Points(Len(h) + 1),
                  heap |-> Append(h, done.starPositions),
                  rng |-> done.rng,
                  drawn |-> done.drawn]

(***************************************************************************)
(* main.js: the scene script                                               *)
(***************************************************************************)
stars == 500

LayerNames == {"Low", "Med", "High"}

RECURSIVE GCD(_, _)
GCD(a, b) == IF b = 0 THEN a ELSE GCD(b, a % b)

\* width / height, as the fraction in lowest terms  (height > 0)
Div(width, height) == << width \div GCD(width, height), height \div GCD(width, height) >>

\* -23.4 * Math.PI / 180, in units of 1/AngleScale
EarthTilt == RoundDiv(-234 * 314159, 1800)

Unset == << 0, 0 >>

NoFrame == [aspect |-> Unset, size |-> Unset, scheduled |-> 0, resizeSeen |-> Unset]

\* the objects of the scene before the script has built them
SceneBlank ==
    /\ rendererSize = Unset /\ canvasStyle = Unset
    /\ cameraAspect = Unset /\ projAspect = Unset
    /\ earthRot = [y |-> 0, z |-> 0] /\ cloudRotY = 0 /\ starsRotY = 0
    /\ earthWorld = [y |-> 0, z |-> 0]
    /\ lightsOpacity = 0
    /\ sunPosition = << 0, 0, 0 >>
    /\ layers = [l \in LayerNames |-> NoObject]
    /\ starsGroup = << >>
    /\ resizeListener = FALSE /\ resizePending = FALSE
    /\ rafPending = 0 /\ frames = 0
    /\ lastFrame = NoFrame /\ resizeRead = Unset
    /\ genLog = [l \in LayerNames |-> << >>]

\* the page is loaded, the script has not run yet
Init ==
    /\ pc = "viewport"
    /\ innerWidth \in 1 .. MaxDim /\ innerHeight \in 1 .. MaxDim
    /\ SceneBlank
    /\ heap = << >>
    /\ rng \in {r \in Seeds : r[1] <= 1 /\ r[2] = r[1] /\ r[3] = r[1]}
    /\ cfg = [numStars |-> 0, radius |-> 0]
    /\ calls = << >>

\* const width/height; renderer.setSize(width, height)
SetupViewport ==
    /\ pc = "viewport"
    /\ rendererSize' = << innerWidth, innerHeight >>
    /\ canvasStyle' = << innerWidth, innerHeight >>
    /\ pc' = "camera"
    /\ UNCHANGED << innerWidth, innerHeight, cameraAspect, projAspect, earthRot,
                    cloudRotY, starsRotY, earthWorld, lightsOpacity, sunPosition,
                    layers, starsGroup, heap, rng, resizeListener, resizePending,
                    rafPending, frames, lastFrame, resizeRead, genLog, cfg, calls >>

\* new THREE.PerspectiveCamera(fov, width / height, near, far): the constructor
\* computes the projection matrix
SetupCamera ==
    /\ pc = "camera"
    /\ cameraAspect' = Div(innerWidth, innerHeight)
    /\ projAspect' = cameraAspect'
    /\ pc' = "scene"
    /\ UNCHANGED << innerWidth, innerHeight, rendererSize, canvasStyle, earthRot,
                    cloudRotY, starsRotY, earthWorld, lightsOpacity, sunPosition,
                    layers, starsGroup, heap, rng, resizeListener, resizePending,
                    rafPending, frames, lastFrame, resizeRead, genLog, cfg, calls >>

\* groups, the axial tilt, controls, the Earth, city-lights and cloud materials
SetupScene ==
    /\ pc = "scene"
    /\ earthRot' = [y |-> 0, z |-> EarthTilt]
    /\ cloudRotY' = 0
    /\ starsRotY' = 0
    /\ lightsOpacity' = 500
    /\ pc' = "starsLow"
    /\ UNCHANGED << innerWidth, innerHeight, rendererSize, canvasStyle, cameraAspect,
                    projAspect, earthWorld, sunPosition, layers, starsGroup, heap,
                    rng, resizeListener, resizePending, rafPending, frames,
                    lastFrame, resizeRead, genLog, cfg, calls >>

\* const starsX_<layer> = getStarfield({ numStars: stars, radius })
GenStars(at, layer, radius, next) ==
    /\ pc = at
    /\ LET res == getStarfield(stars, radius, rng, heap)
       IN  /\ layers' = [layers EXCEPT ![layer] = res.points]
           /\ heap' = res.heap
           /\ rng' = res.rng
           /\ pc' = IF res.status = "ok" THEN next ELSE "thrown"
    /\ genLog' = [genLog EXCEPT ![layer] =
                    Append(@, [numStars |-> stars, radius |-> radius])]
    /\ UNCHANGED << innerWidth, innerHeight, rendererSize, canvasStyle, cameraAspect,
                    projAspect, earthRot, cloudRotY, starsRotY, earthWorld,
                    lightsOpacity, sunPosition, starsGroup, resizeListener,
                    resizePending, rafPending, frames, lastFrame, resizeRead, cfg,
                    calls >>

GenStarsLow == GenStars("starsLow", "Low", 500, "starsMed")
GenStarsMed == GenStars("starsMed", "Med", 750, "starsHigh")
GenStarsHigh == GenStars("starsHigh", "High", 1000, "starsAdd")

\* starsGroup.add(starsX_Low, starsX_Med, starsX_High)
AddStars ==
    /\ pc = "starsAdd"
    /\ starsGroup' = << layers["Low"], layers["Med"], layers["High"] >>
    /\ pc' = "lighting"
    /\ UNCHANGED << innerWidth, innerHeight, rendererSize, canvasStyle, cameraAspect,
                    projAspect, earthRot, cloudRotY, starsRotY, earthWorld,
                    lightsOpacity, sunPosition, layers, heap, rng, resizeListener,
                    resizePending, rafPending, frames, lastFrame, resizeRead,
                    genLog, cfg, calls >>

\* sunLight.position.set(-2000, -1250, 1500)
SetupLighting ==
    /\ pc = "lighting"
    /\ sunPosition' = << -2000, -1250, 1500 >>
    /\ pc' = "listen"
    /\ UNCHANGED << innerWidth, innerHeight, rendererSize, canvasStyle, cameraAspect,
                    projAspect, earthRot, cloudRotY, starsRotY, earthWorld,
                    lightsOpacity, layers, starsGroup, heap, rng, resizeListener,
                    resizePending, rafPending, frames, lastFrame, resizeRead,
                    genLog, cfg, calls >>

\* The opacity updateNightLights() assigns to lightsMesh.material.opacity.  No
\* statement of main.js calls the function.
updateNightLights ==
    LET len == ISqrt(sunPosition[1] * sunPosition[1] + sunPosition[2] * sunPosition[2]
                     + sunPosition[3] * sunPosition[3])
        sunDirection == [i \in 1..3 |->
                            IF len = 0 THEN 0 ELSE RoundDiv(sunPosition[i] * Scale, len)]
        worldY == RoundDiv(earthWorld.y * Scale, AngleScale)
        \* (0, 0, 1) through the rotation of earthGroup.matrixWorld (Euler XYZ)
        rotated == << sin(worldY), 0, cos(worldY) >>
        rlen == ISqrt(rotated[1] * rotated[1] + rotated[3] * rotated[3])
        earthNormal == [i \in 1..3 |->
                           IF rlen = 0 THEN 0 ELSE RoundDiv(rotated[i] * Scale, rlen)]
        dot == Mul(sunDirection[1], earthNormal[1]) + Mul(sunDirection[2], earthNormal[2])
               + Mul(sunDirection[3], earthNormal[3])
        lit == IF dot > 0 THEN dot ELSE 0
        opacity == Mul(750, Scale - lit)
    IN  IF opacity > 0 THEN opacity ELSE 0

\* faulty variant: no requestAnimationFrame(animate)
animate_noRequest(pending) ==
    /\ rafPending' = pending
    /\ earthRot' = [earthRot EXCEPT !.y = @ + 100]
    /\ cloudRotY' = cloudRotY + 150
    /\ starsRotY' = starsRotY - 10
    /\ earthWorld' = earthRot'
    /\ lastFrame' = [aspect |-> projAspect, size |-> rendererSize,
                     scheduled |-> rafPending', resizeSeen |-> resizeRead]
    /\ frames' = frames + 1
    /\ UNCHANGED << innerWidth, innerHeight, rendererSize, canvasStyle, cameraAspect,
                    projAspect, lightsOpacity, sunPosition, layers, starsGroup,
                    heap, rng, resizeListener, resizePending, resizeRead, genLog,
                    cfg, calls >>

\* faulty variant: the clouds turn at the Earth's rate
animate_uniformRate(pending) ==
    /\ rafPending' = pending + 1
    /\ earthRot' = [earthRot EXCEPT !.y = @ + 100]
    /\ cloudRotY' = cloudRotY + 100
    /\ starsRotY' = starsRotY - 10
    /\ earthWorld' = earthRot'
    /\ lastFrame' = [aspect |-> projAspect, size |-> rendererSize,
                     scheduled |-> rafPending', resizeSeen |-> resizeRead]
    /\ frames' = frames + 1
    /\ UNCHANGED << innerWidth, innerHeight, rendererSize, canvasStyle, cameraAspect,
                    projAspect, lightsOpacity, sunPosition, layers, starsGroup,
                    heap, rng, resizeListener, resizePending, resizeRead, genLog,
                    cfg, calls >>

\* faulty variant: the stars are turned by rewriting their coordinates (here the first
\* of each buffer) instead of rotating the group
animate_moveStars(pending) ==
    /\ rafPending' = pending + 1
    /\ earthRot' = [earthRot EXCEPT !.y = @ + 100]
    /\ cloudRotY' = cloudRotY + 150
    /\ starsRotY' = starsRotY
    /\ heap' = [b \in 1 .. Len(heap) |-> Store(heap[b], 0, heap[b][1] - 10)]
    /\ earthWorld' = earthRot'
    /\ lastFrame' = [aspect |-> projAspect, size |-> rendererSize,
                     scheduled |-> rafPending', resizeSeen |-> resizeRead]
    /\ frames' = frames + 1
    /\ UNCHANGED << innerWidth, innerHeight, rendererSize, canvasStyle, cameraAspect,
                    projAspect, lightsOpacity, sunPosition, layers, starsGroup,
                    rng, resizeListener, resizePending, resizeRead, genLog,
                    cfg, calls >>

\* animate(): request the next frame, rotate the three groups, render.
\* pending is the number of callbacks still registered when it is entered.
animate(pending) ==
    /\ rafPending' = pending + 1
    /\ earthRot' = [earthRot EXCEPT !.y = @ + 100]
    /\ cloudRotY' = cloudRotY + 150
    /\ starsRotY' = starsRotY - 10
    \* renderer.render(scene, camera): updates the world matrices and draws with
    \* the camera's projection matrix at the renderer's size
    /\ earthWorld' = earthRot'
    /\ lastFrame' = [aspect |-> projAspect, size |-> rendererSize,
                     scheduled |-> rafPending', resizeSeen |-> resizeRead]
    /\ frames' = frames + 1
    /\ UNCHANGED << innerWidth, innerHeight, rendererSize, canvasStyle, cameraAspect,
                    projAspect, lightsOpacity, sunPosition, layers, starsGroup,
                    heap, rng, resizeListener, resizePending, resizeRead, genLog,
                    cfg, calls >>

\* faulty variant: camera.updateProjectionMatrix() is not called
onResize_staleProjection ==
    /\ rendererSize' = << innerWidth, innerHeight >>
    /\ canvasStyle' = << innerWidth, innerHeight >>
    /\ cameraAspect' = Div(innerWidth, innerHeight)
    /\ resizeRead' = << innerWidth, innerHeight >>
    /\ UNCHANGED << innerWidth, innerHeight, projAspect, earthRot, cloudRotY,
                    starsRotY, earthWorld, lightsOpacity, sunPosition, layers,
                    starsGroup, heap, rng, resizeListener, rafPending, frames,
                    lastFrame, genLog, cfg, calls >>

\* the body of the resize listener
onResize ==
    /\ rendererSize' = << innerWidth, innerHeight >>
    /\ canvasStyle' = << innerWidth, innerHeight >>
    /\ cameraAspect' = Div(innerWidth, innerHeight)
    \* camera.updateProjectionMatrix()
    /\ projAspect' = cameraAspect'
    /\ resizeRead' = << innerWidth, innerHeight >>
    /\ UNCHANGED << innerWidth, innerHeight, earthRot, cloudRotY, starsRotY,
                    earthWorld, lightsOpacity, sunPosition, layers, starsGroup,
                    heap, rng, resizeListener, rafPending, frames, lastFrame,
                    genLog, cfg, calls >>

\* window.addEventListener("resize", ...)
AddResizeListener ==
    /\ pc = "listen"
    /\ resizeListener' = TRUE
    /\ pc' = "start"
    /\ UNCHANGED << innerWidth, innerHeight, rendererSize, canvasStyle, cameraAspect,
                    projAspect, earthRot, cloudRotY, starsRotY, earthWorld,
                    lightsOpacity, sunPosition, layers, starsGroup, heap, rng,
                    resizePending, rafPending, frames, lastFrame, resizeRead,
                    genLog, cfg, calls >>

\* animate(): the direct call that ends the script
StartAnimate ==
    /\ pc = "start"
    /\ animate(rafPending)
    /\ pc' = "loop"
    /\ UNCHANGED resizePending

(***************************************************************************)
(* The browser's event loop, once the script has returned.                 *)
(***************************************************************************)
\* the browser takes a registered animation-frame callback and runs it
FrameCallback ==
    /\ pc = "loop"
    /\ rafPending > 0
    /\ frames < MaxFrames
    /\ animate(rafPending - 1)
    /\ UNCHANGED << pc, resizePending >>

\* the user resizes the window: a resize event is queued for the listeners
WindowResize ==
    /\ pc = "loop"
    /\ \E w \in 1 .. MaxDim, h \in 1 .. MaxDim :
          /\ << w, h >> # << innerWidth, innerHeight >>
          /\ innerWidth' = w
          /\ innerHeight' = h
    /\ resizePending' = resizeListener
    /\ UNCHANGED << pc, rendererSize, canvasStyle, cameraAspect, projAspect,
                    earthRot, cloudRotY, starsRotY, earthWorld, lightsOpacity,
                    sunPosition, layers, starsGroup, heap, rng, resizeListener,
                    rafPending, frames, lastFrame, resizeRead, genLog, cfg, calls >>

\* the browser dispatches the queued resize event to the listener
ResizeCallback ==
    /\ pc = "loop"
    /\ resizePending
    /\ onResize
    /\ resizePending' = FALSE
    /\ UNCHANGED pc

Next ==
    \/ SetupViewport
    \/ SetupCamera
    \/ SetupScene
    \/ GenStarsLow
    \/ GenStarsMed
    \/ GenStarsHigh
    \/ AddStars
    \/ SetupLighting
    \/ AddResizeListener
    \/ StartAnimate
    \/ FrameCallback
    \/ WindowResize
    \/ ResizeCallback

Spec == Init /\ [][Next]_vars

\* the browser runs every registered animation-frame callback
FairSpec == Spec /\ WF_vars(FrameCallback)

(***************************************************************************)
(* A harness around getStarfield: one configuration, valid or not, and     *)
(* repeated invocations, the generator either running on or put back to    *)
(* the state it had at the first invocation.                               *)
(***************************************************************************)
Radii == {-25, -1, 0, 1, 25}

HarnessInit ==
    /\ pc = "harness"
    /\ innerWidth = 1 /\ innerHeight = 1
    /\ SceneBlank
    /\ heap = << >>
    /\ rng \in Seeds
    /\ cfg \in [numStars : -2 .. MaxStars, radius : Radii]
    /\ calls = << >>

\* getStarfield({ numStars: cfg.numStars, radius: cfg.radius })
Invoke ==
    /\ pc = "harness"
    /\ Len(calls) < MaxCalls
    /\ LET res == getStarfield(cfg.numStars, cfg.radius, rng, heap)
       IN  /\ heap' = res.heap
           /\ rng' = res.rng
           /\ calls' = Append(calls,
                 [numStars |-> cfg.numStars,
                  radius |-> cfg.radius,
                  drawn |-> res.drawn,
                  status |-> res.status,
                  buffer |-> res.points.position,
                  positions |-> IF res.status = "ok"
                                THEN res.heap[res.points.position] ELSE << >>,
                  heapKept |-> SubSeq(res.heap, 1, Len(heap)) = heap,
                  rngBefore |-> rng,
                  rngAfter |-> res.rng])
    /\ UNCHANGED << pc, cfg >>
    /\ UNCHANGED sceneVars

\* the random source is put back: the next invocation is fed the draws of the first
Replay ==
    /\ pc = "harness"
    /\ calls # << >>
    /\ Len(calls) < MaxCalls
    /\ rng # calls[1].rngBefore
    /\ rng' = calls[1].rngBefore
    /\ UNCHANGED << pc, cfg, calls, heap >>
    /\ UNCHANGED sceneVars

HarnessNext == Invoke \/ Replay

SamplerSpec == HarnessInit /\ [][HarnessNext]_vars

(***************************************************************************)
(* Properties of the sampler (checked under SamplerSpec).                  *)
(***************************************************************************)
CallIds == 1 .. Len(calls)

\* star i (from 0) of a logged invocation, as stored in its position buffer
PointOf(c, i) == << c.positions[3 * i + 1], c.positions[3 * i + 2], c.positions[3 * i + 3] >>

\* the three draws consumed for star i, in the order they were drawn
DrawsOf(c, i) == << c.drawn[3 * i + 1], c.drawn[3 * i + 2], c.drawn[3 * i + 3] >>

NormSquared(p) == p[1] * p[1] + p[2] * p[2] + p[3] * p[3]

Finite(v) == v # NaN

\* C1: for every count >= 0 and every radius, getStarfield returns without an
\* error a position buffer of exactly 3 * count coordinates, star i stored at
\* indices 3i, 3i+1, 3i+2 (count = 0: the empty buffer).
C1_ExactCount ==
    \A k \in CallIds :
        LET c == calls[k]
        IN  c.numStars >= 0 =>
              /\ c.status = "ok"
              /\ Len(c.positions) = 3 * c.numStars
              /\ Len(c.drawn) = 3 * c.numStars
              /\ \A i \in 0 .. c.numStars - 1 :
                    PointOf(c, i) = StarPoint(c.radius * Scale, DrawsOf(c, i)[1],
                                              DrawsOf(c, i)[2], DrawsOf(c, i)[3])

C1_Witness ==
    \E k \in CallIds :
        /\ calls[k].numStars >= 2
        /\ Len(calls[k].positions) = 3 * calls[k].numStars
        /\ calls[k].radius = 25

\* C2 as stated: with a positive radius R every star's distance from the
\* origin lies in [0.8 * R, R], whatever the three draws.
C2_ShellExact ==
    \A k \in CallIds :
        LET c == calls[k]
        IN  (c.status = "ok" /\ c.radius > 0) =>
              \A i \in 0 .. c.numStars - 1 :
                  /\ NormSquared(PointOf(c, i)) >= (800 * c.radius) * (800 * c.radius)
                  /\ NormSquared(PointOf(c, i)) <= (1000 * c.radius) * (1000 * c.radius)

\* C2 amended: with a positive radius R every star's distance from the origin
\* lies in [0.8 * R, R] up to the rounding of the arithmetic: within one part
\* in a hundred of either end.
C2_ShellWithinRounding ==
    \A k \in CallIds :
        LET c == calls[k]
        IN  (c.status = "ok" /\ c.radius > 0) =>
              \A i \in 0 .. c.numStars - 1 :
                  LET dist == ISqrt(NormSquared(PointOf(c, i)))
                  IN  /\ 100 * (dist + 1) >= 99 * (800 * c.radius)
                      /\ 100 * dist <= 101 * (1000 * c.radius)

C2_Witness ==
    \E k \in CallIds :
        /\ calls[k].status = "ok"
        /\ calls[k].radius = 25
        /\ calls[k].numStars >= 1
        /\ DrawsOf(calls[k], 0)[3] = 0
        /\ NormSquared(PointOf(calls[k], 0)) < (800 * 25) * (800 * 25)

Invalid(c) == c.numStars <= 0 \/ c.radius <= 0

\* C4 as stated: for every invalid configuration (numStars <= 0 or radius <= 0)
\* getStarfield completes without signalling an error and returns a result
\* that is empty or contains a non-finite coordinate.
C4_DegenerateResult ==
    \A k \in CallIds :
        LET c == calls[k]
        IN  Invalid(c) =>
              /\ c.status = "ok"
              /\ \/ c.positions = << >>
                 \/ \E j \in 1 .. Len(c.positions) : ~Finite(c.positions[j])

\* C4 amended: getStarfield validates nothing.  numStars = 0 returns an empty
\* buffer; a negative numStars makes the typed-array allocation signal a
\* RangeError and nothing is returned; with numStars > 0 a zero radius returns
\* numStars finite points, all at the origin, and a negative radius R returns
\* numStars finite points at a distance within [0.8 * |R|, |R|] of the origin
\* (up to rounding).  No invalid configuration yields a non-finite coordinate.
C4_InvalidConfigurations ==
    \A k \in CallIds :
        LET c == calls[k]
        IN  Invalid(c) =>
              /\ c.numStars < 0 => (c.status = "RangeError" /\ c.buffer = 0)
              /\ c.numStars = 0 => (c.status = "ok" /\ c.positions = << >>)
              /\ c.numStars > 0 =>
                    /\ c.status = "ok"
                    /\ Len(c.positions) = 3 * c.numStars
                    /\ \A j \in 1 .. Len(c.positions) : Finite(c.positions[j])
                    /\ c.radius = 0 => \A j \in 1 .. Len(c.positions) : c.positions[j] = 0
                    /\ c.radius < 0 =>
                          \A i \in 0 .. c.numStars - 1 :
                              LET dist == ISqrt(NormSquared(PointOf(c, i)))
                              IN  /\ 100 * (dist + 1) >= 99 * (800 * (-c.radius))
                                  /\ 100 * dist <= 101 * (1000 * (-c.radius))

C4_Witness ==
    \E k \in CallIds :
        /\ calls[k].numStars < 0
        /\ calls[k].status = "RangeError"
        /\ calls[k].radius > 0

\* C5: two invocations with the same numStars and radius that consume the same
\* sequence of draws return the same outcome and the same point sequence; an
\* invocation leaves every buffer allocated before it as it was, and takes
\* from the random source exactly three draws per star.
C5_Deterministic ==
    /\ \A j \in CallIds, k \in CallIds :
          ( /\ calls[j].numStars = calls[k].numStars
            /\ calls[j].radius = calls[k].radius
            /\ calls[j].drawn = calls[k].drawn )
          => ( /\ calls[j].status = calls[k].status
               /\ calls[j].positions = calls[k].positions )
    /\ \A k \in CallIds :
          /\ calls[k].heapKept
          /\ calls[k].status = "ok" => Len(calls[k].drawn) = 3 * calls[k].numStars

C5_Witness ==
    \E j \in CallIds, k \in CallIds :
        /\ j < k
        /\ calls[j].numStars >= 2
        /\ calls[j].radius = 25
        /\ calls[j].drawn = calls[k].drawn
        /\ calls[j].positions = calls[k].positions
        /\ calls[j].buffer # calls[k].buffer

(***************************************************************************)
(* Properties of the scene (checked under Spec, C7 under FairSpec).        *)
(***************************************************************************)
Built(l) == layers[l] # NoObject

\* C3: once a layer's point cloud exists, no step (frame callback, resize
\* callback, or any other) changes which buffer it holds or the contents of
\* that buffer: no point moves, is added or removed.
C3_StarsImmutable ==
    [][ \A l \in LayerNames :
            Built(l) => /\ layers'[l] = layers[l]
                        /\ heap'[layers[l].position] = heap[layers[l].position] ]_vars

C3_Witness ==
    /\ \A l \in LayerNames : Built(l) /\ Len(heap[layers[l].position]) = 3 * stars
    /\ frames >= 2
    /\ resizeRead # Unset

\* C6: a resize callback leaves camera.aspect equal to the window's
\* innerWidth / innerHeight and the renderer size equal to the window's
\* (innerWidth, innerHeight); every frame rendered after a resize callback has
\* run is drawn with the aspect and size of the dimensions the most recent
\* resize callback read.
C6_ResizeTracksWindow ==
    /\ [][ ResizeCallback =>
              /\ cameraAspect' = Div(innerWidth', innerHeight')
              /\ rendererSize' = << innerWidth', innerHeight' >>
              /\ canvasStyle' = << innerWidth', innerHeight' >> ]_vars
    /\ [](lastFrame.resizeSeen # Unset =>
              /\ lastFrame.aspect = Div(lastFrame.resizeSeen[1], lastFrame.resizeSeen[2])
              /\ lastFrame.size = lastFrame.resizeSeen)

C6_Witness ==
    /\ lastFrame.resizeSeen # Unset
    /\ lastFrame.size # << innerWidth, innerHeight >>
    /\ resizePending

\* C7: once animate() has been started exactly one frame callback is pending
\* in every state, each execution of animate() has registered it before it
\* rendered, and (the browser running every registered callback) each frame is
\* followed by another.
C7_FrameLoopNeverStops ==
    /\ [](pc = "loop" => rafPending = 1)
    /\ [](frames > 0 => lastFrame.scheduled = 1)
    /\ \A n \in 1 .. MaxFrames - 1 : (frames = n) ~> (frames = n + 1)

C7_Witness ==
    /\ pc = "loop"
    /\ frames = MaxFrames
    /\ rafPending = 1

\* C8: each of the three layers is generated exactly once, with 500 stars and
\* radius 500, 750 and 1000; all three exist before animate() first runs,
\* before a frame callback is registered and before a frame is rendered; none
\* is generated afterwards; the three own distinct position buffers.
C8_StarsGeneratedOnceBeforeLoop ==
    /\ \A l \in LayerNames : Len(genLog[l]) <= 1
    /\ (frames > 0 \/ rafPending > 0 \/ pc \in {"start", "loop"} \/ lastFrame # NoFrame) =>
          /\ genLog["Low"] = << [numStars |-> 500, radius |-> 500] >>
          /\ genLog["Med"] = << [numStars |-> 500, radius |-> 750] >>
          /\ genLog["High"] = << [numStars |-> 500, radius |-> 1000] >>
          /\ \A l \in LayerNames :
                /\ Built(l)
                /\ layers[l].position \in 1 .. Len(heap)
                /\ Len(heap[layers[l].position]) = 3 * 500
          /\ \A l \in LayerNames, m \in LayerNames :
                l # m => layers[l].position # layers[m].position
          /\ starsGroup = << layers["Low"], layers["Med"], layers["High"] >>

C8_Witness ==
    /\ frames >= 2
    /\ \A l \in LayerNames : Len(genLog[l]) = 1
    /\ Len(heap) = 3

\* C9: while the program runs, the city-lights opacity is the value computed
\* by updateNightLights, max(0, 0.75 * (1 - max(0, dot))), not the value the
\* material was constructed with.
C9_NightLightsDynamic ==
    frames >= 1 => lightsOpacity = updateNightLights

====
